---- MODULE Spec2Model ----
(***************************************************************************)
(* The switching backtest of StockBinaryComparison.py (backtest_switching  *)
(* with exec_price and fee_on_notional), one loop iteration per step.      *)
(*                                                                         *)
(* Numbers.  Prices are whole price units.  Money (cash, notionals, fees,  *)
(* equity, turnover) is counted in 1/MoneyScale of a price unit, which     *)
(* makes every product and quotient of the code exact for fee and slippage *)
(* rates that are multiples of 50 bps.  Overnight returns and the edge are *)
(* exact fractions <<numerator, denominator>>.  The model is therefore the *)
(* code over the rationals: float64 rounding is not modelled.              *)
(*                                                                         *)
(* Runs.  Every per-run variable is a function over the run ids, so that   *)
(* one behaviour can carry one run (Spec) or two runs in step: on the same *)
(* table (SpecFee) or on the same closes (SpecPassive), for the claims     *)
(* that compare runs.                                                      *)
(*                                                                         *)
(* Other entry points.  SpecOneShare and SpecMoney start the backtest from *)
(* small holdings, SpecRaw runs it on a table with zero and negative       *)
(* closes, SpecAlign is fetch_data and align_two followed by the backtest  *)
(* of the aligned table, SpecMetrics is the MaxDrawdown of compute_metrics *)
(* on a curve of any values, signal_action is the decision of signal2.py,  *)
(* and SpecOpen is the retry loop of today_open in signal2.py, with weak   *)
(* fairness of its next statement.                                         *)
(***************************************************************************)
EXTENDS Integers, Sequences, FiniteSets, TLC

\* ------------------------------------------------------------- bounds
NDates      == 3      \* rows of the aligned table
MaxGap      == 2      \* calendar days between consecutive rows: 1..MaxGap
MaxCooldown == 2      \* the nonzero cooldown_days
SharesInit  == 100    \* the nonzero initial share count
CashInit    == 3      \* the nonzero initial cash, in price units
MaxRows     == 2      \* rows of a table given to the aligner: 0..MaxRows
MaxCurve    == 3      \* values of a curve given to compute_metrics: 0..MaxCurve
MaxRetries  == 3      \* retries of today_open: -1..MaxRetries
MaxDelay    == 2      \* the nonzero delay of today_open, in seconds

\* ---------------------------------------------------------- constants
BpsPerUnit == 10000                  \* the 1e4 of the code
MoneyScale == 4 * BpsPerUnit         \* money unit: 1/40000 price unit
Unreachable == 1000 * 1000 * 1000    \* the 1e9 threshold of the scenario
HalfEdge == BpsPerUnit \div 2        \* 5000 bps: an edge the table hits exactly

None == << >>                        \* last_switch_date = None

\* ------------------------------------------------------ input domains
Prices     == {1, 2}                 \* opens and closes, in price units
Hysteresis == {0 - HalfEdge, 0, HalfEdge, Unreachable}
Cooldowns  == {0, MaxCooldown}
Costs      == { <<0, 0>>, <<50, 50>> }     \* <<fee_bps, slippage_bps>>
Holdings   == { <<SharesInit, 0, 0>>, <<0, SharesInit, CashInit>> }

TradeParams ==
    { [hysteresis_bps |-> h, cooldown_days |-> c,
       fee_bps |-> k[1], slippage_bps |-> k[2]] :
      h \in Hysteresis, c \in Cooldowns, k \in Costs }
Args == { [shares1_init |-> h[1], shares2_init |-> h[2], cash_init |-> h[3]] :
          h \in Holdings }
Rows == [open1 : Prices, close1 : Prices, open2 : Prices, close2 : Prices]

VARIABLES
    pc,       \* "loop" while the for loop runs, "done" after the return;
              \* "fetch", "align", "aligned" in main before the loop;
              \* "metrics", "returned" in compute_metrics;
              \* "today_open", "sleep", "open_returned" in today_open; the
              \* name of the exception after a raise
    i,        \* index of the row processed last (-1: none yet)
    dt,       \* its date, as a day number
    row,      \* row[r]: the row of date dt as run r reads it
    args,     \* args[r]: shares1_init, shares2_init, cash_init
    params,   \* params[r]: the TradeParams of run r
    st,       \* st[r]: the loop state of run r after row i
    left,     \* the price table of asset 1 given to fetch_data / align_two
    right,    \* the price table of asset 2
    combined, \* the table align_two returns
    equity_curve,   \* the curve given to compute_metrics
    metrics,        \* the metrics it returns
    open_fetch      \* the call of today_open: arguments, loop counter, last
                    \* download, downloads made, seconds slept, value returned

vars == <<pc, i, dt, row, args, params, st, left, right, combined,
          equity_curve, metrics, open_fetch>>

tables == <<left, right, combined>>
curves == <<equity_curve, metrics>>

\* no call of today_open
NoFetch ==
    [retries |-> 0, delay |-> 0, attempt |-> 0,
     df |-> [rows |-> 0, has_open |-> FALSE, open |-> 0],
     downloads |-> 0, slept |-> 0, value |-> 0]

Runs == DOMAIN st

\* ---------------------------------------------------- exact fractions
RatSub(a, b) == <<a[1] * b[2] - b[1] * a[2], a[2] * b[2]>>
RatMul(a, k) == <<a[1] * k, a[2]>>
\* q > k and q < k for a fraction q with positive denominator and an integer k
RatGt(q, k) == (0 - ((0 - q[1]) \div q[2])) > k
RatLt(q, k) == (q[1] \div q[2]) < k
RatSign(q) == IF q[1] > 0 THEN 1 ELSE IF q[1] < 0 THEN -1 ELSE 0
\* the same fraction with a positive denominator (a division by a negative close)
RatNorm(q) == IF q[2] < 0 THEN <<0 - q[1], 0 - q[2]>> ELSE q

Abs(x) == IF x < 0 THEN 0 - x ELSE x

\* ----------------------------------------------------- execution model
\* exec_price: open * (1 + s) for a buy, open * (1 - s) for a sell, s = bps/1e4;
\* the result is in money units per share.
exec_price(open_px, slippage_bps, side) ==
    IF side = "buy"
    THEN open_px * (BpsPerUnit + slippage_bps) * (MoneyScale \div BpsPerUnit)
    ELSE open_px * (BpsPerUnit - slippage_bps) * (MoneyScale \div BpsPerUnit)

\* x * k / d for x, k >= 0 and d > 0, without forming the product x * k
MulDiv(x, k, d) == (x \div d) * k + ((x % d) * k) \div d

\* fee_on_notional: abs(notional) * (fee_bps / 1e4)
fee_on_notional(notional, fee_bps) == MulDiv(Abs(notional), fee_bps, BpsPerUnit)

\* ------------------------------------------------------- strategy core
\* lines 221-230: the overnight returns and the edge in bps
Edge(idx, prev, cur) ==
    IF idx = 0
    THEN <<0, 1>>
    ELSE LET r1 == <<cur.open1 - prev.close1, prev.close1>>
             r2 == <<cur.open2 - prev.close2, prev.close2>>
         IN  RatNorm(RatMul(RatSub(r2, r1), BpsPerUnit))

\* the cooldown counted inclusively, one day too generous
cooldown_ok_inclusive(last_switch_date, date, cooldown_days) ==
    \/ last_switch_date = None
    \/ date - last_switch_date[1] + 1 >= cooldown_days

\* line 235
cooldown_ok(last_switch_date, date, cooldown_days) ==
    \/ last_switch_date = None
    \/ date - last_switch_date[1] >= cooldown_days

\* the hysteresis comparisons made non-strict
Decide_nonstrict(idx, ok, holding1, edge_bps, hysteresis_bps) ==
    IF idx > 0 /\ ok
    THEN IF holding1 /\ ~RatLt(edge_bps, hysteresis_bps)
         THEN [do_switch |-> TRUE, target_is_2 |-> TRUE]
         ELSE IF (~holding1) /\ ~RatGt(edge_bps, 0 - hysteresis_bps)
              THEN [do_switch |-> TRUE, target_is_2 |-> FALSE]
              ELSE [do_switch |-> FALSE, target_is_2 |-> FALSE]
    ELSE [do_switch |-> FALSE, target_is_2 |-> FALSE]

\* the cooldown left out of the decision
Decide_nocooldown(idx, ok, holding1, edge_bps, hysteresis_bps) ==
    IF idx > 0
    THEN IF holding1 /\ RatGt(edge_bps, hysteresis_bps)
         THEN [do_switch |-> TRUE, target_is_2 |-> TRUE]
         ELSE IF (~holding1) /\ RatLt(edge_bps, 0 - hysteresis_bps)
              THEN [do_switch |-> TRUE, target_is_2 |-> FALSE]
              ELSE [do_switch |-> FALSE, target_is_2 |-> FALSE]
    ELSE [do_switch |-> FALSE, target_is_2 |-> FALSE]

\* the i > 0 guard left out of the decision
Decide_anydate(idx, ok, holding1, edge_bps, hysteresis_bps) ==
    IF ok
    THEN IF holding1 /\ RatGt(edge_bps, hysteresis_bps)
         THEN [do_switch |-> TRUE, target_is_2 |-> TRUE]
         ELSE IF (~holding1) /\ RatLt(edge_bps, 0 - hysteresis_bps)
              THEN [do_switch |-> TRUE, target_is_2 |-> FALSE]
              ELSE [do_switch |-> FALSE, target_is_2 |-> FALSE]
    ELSE [do_switch |-> FALSE, target_is_2 |-> FALSE]

\* the sign of the threshold slipped in the first comparison
Decide_signslip(idx, ok, holding1, edge_bps, hysteresis_bps) ==
    IF idx > 0 /\ ok
    THEN IF holding1 /\ RatGt(edge_bps, 0 - hysteresis_bps)
         THEN [do_switch |-> TRUE, target_is_2 |-> TRUE]
         ELSE IF (~holding1) /\ RatLt(edge_bps, 0 - hysteresis_bps)
              THEN [do_switch |-> TRUE, target_is_2 |-> FALSE]
              ELSE [do_switch |-> FALSE, target_is_2 |-> FALSE]
    ELSE [do_switch |-> FALSE, target_is_2 |-> FALSE]

\* lines 233-241: do_switch and target_is_2
Decide(idx, ok, holding1, edge_bps, hysteresis_bps) ==
    IF idx > 0 /\ ok
    THEN IF holding1 /\ RatGt(edge_bps, hysteresis_bps)
         THEN [do_switch |-> TRUE, target_is_2 |-> TRUE]
         ELSE IF (~holding1) /\ RatLt(edge_bps, 0 - hysteresis_bps)
              THEN [do_switch |-> TRUE, target_is_2 |-> FALSE]
              ELSE [do_switch |-> FALSE, target_is_2 |-> FALSE]
    ELSE [do_switch |-> FALSE, target_is_2 |-> FALSE]

\* lines 250 and 257: the turnover added by the sell leg
SellTurnover(notional) == Abs(notional)

\* the buy leg left out of the turnover
BuyTurnover_missing(notional) == 0

\* lines 268 and 277: the turnover added by the buy leg
BuyTurnover(notional) == Abs(notional)

\* the sell leg that leaves the sold shares in place
SellLeg_keepshares(s, cur, p) ==
    LET sell_px  == exec_price(IF s.holding1 THEN cur.open1 ELSE cur.open2,
                               p.slippage_bps, "sell")
        notional == (IF s.holding1 THEN s.shares1 ELSE s.shares2) * sell_px
    IN  [s EXCEPT !.cash = s.cash + notional
                            - fee_on_notional(notional, p.fee_bps),
                  !.turnover_notional = @ + SellTurnover(notional)]

\* the sell leg at the raw open, with neither slippage nor fee
SellLeg_nocost(s, cur, p) ==
    IF s.holding1
    THEN LET notional == s.shares1 * cur.open1 * MoneyScale
         IN  [s EXCEPT !.cash = s.cash + notional,
                       !.turnover_notional = @ + SellTurnover(notional),
                       !.shares1 = 0]
    ELSE LET notional == s.shares2 * cur.open2 * MoneyScale
         IN  [s EXCEPT !.cash = s.cash + notional,
                       !.turnover_notional = @ + SellTurnover(notional),
                       !.shares2 = 0]

\* lines 244-258: sell the current holding at the open with slippage, pay the fee
SellLeg(s, cur, p) ==
    IF s.holding1
    THEN LET sell_px  == exec_price(cur.open1, p.slippage_bps, "sell")
             notional == s.shares1 * sell_px
         IN  [s EXCEPT !.cash = s.cash + notional
                                 - fee_on_notional(notional, p.fee_bps),
                       !.turnover_notional = @ + SellTurnover(notional),
                       !.shares1 = 0]
    ELSE LET sell_px  == exec_price(cur.open2, p.slippage_bps, "sell")
             notional == s.shares2 * sell_px
         IN  [s EXCEPT !.cash = s.cash + notional
                                 - fee_on_notional(notional, p.fee_bps),
                       !.turnover_notional = @ + SellTurnover(notional),
                       !.shares2 = 0]

\* lines 266-267 and 275-276: the cash left by the purchase and its fee
CashAfterBuy(cash, notional, fee_bps) ==
    cash - notional - fee_on_notional(notional, fee_bps)

\* holding1 = True pasted into both branches of the buy leg
HoldingAfterBuy_pasted(target_is_2) == TRUE

\* lines 269 and 278: holding1 after the buy leg
HoldingAfterBuy(target_is_2) == ~target_is_2

\* the buy leg that turns holding1 only when it has bought a share
BuyLeg_keepflag(s, cur, p, target_is_2) ==
    LET buy_px     == exec_price(IF target_is_2 THEN cur.open2 ELSE cur.open1,
                                 p.slippage_bps, "buy")
        new_shares == s.cash \div buy_px
        notional   == new_shares * buy_px
        after      == [s EXCEPT !.cash = CashAfterBuy(s.cash, notional, p.fee_bps),
                                !.turnover_notional = @ + BuyTurnover(notional),
                                !.holding1 = IF new_shares > 0
                                             THEN HoldingAfterBuy(target_is_2)
                                             ELSE @]
    IN  IF target_is_2
        THEN [after EXCEPT !.shares2 = @ + new_shares]
        ELSE [after EXCEPT !.shares1 = @ + new_shares]

\* lines 260-278: buy the target with all cash (integer shares), pay the fee
BuyLeg(s, cur, p, target_is_2) ==
    IF target_is_2
    THEN LET buy_px     == exec_price(cur.open2, p.slippage_bps, "buy")
             new_shares == s.cash \div buy_px
             notional   == new_shares * buy_px
         IN  [s EXCEPT !.shares2 = @ + new_shares,
                       !.cash = CashAfterBuy(s.cash, notional, p.fee_bps),
                       !.turnover_notional = @ + BuyTurnover(notional),
                       !.holding1 = HoldingAfterBuy(target_is_2)]
    ELSE LET buy_px     == exec_price(cur.open1, p.slippage_bps, "buy")
             new_shares == s.cash \div buy_px
             notional   == new_shares * buy_px
         IN  [s EXCEPT !.shares1 = @ + new_shares,
                       !.cash = CashAfterBuy(s.cash, notional, p.fee_bps),
                       !.turnover_notional = @ + BuyTurnover(notional),
                       !.holding1 = HoldingAfterBuy(target_is_2)]

\* the passive curve marked to the opens instead of the closes
PassiveEquity_atopen(a, cur) ==
    (a.shares1_init * cur.open1 + a.shares2_init * cur.open2 + a.cash_init)
        * MoneyScale

\* line 195: the passive equity of one date, from the closes and the initial
\* holdings alone
PassiveEquity(a, cur) ==
    (a.shares1_init * cur.close1 + a.shares2_init * cur.close2 + a.cash_init)
        * MoneyScale

\* the active equity marked to the opens instead of the closes
MarkToClose_atopen(s, cur) ==
    (s.shares1 * cur.open1 + s.shares2 * cur.open2) * MoneyScale + s.cash

\* line 290
MarkToClose(s, cur) ==
    (s.shares1 * cur.close1 + s.shares2 * cur.close2) * MoneyScale + s.cash

\* lines 204-213: the state before the first iteration
InitState(a) ==
    [shares1 |-> a.shares1_init, shares2 |-> a.shares2_init,
     cash |-> a.cash_init * MoneyScale,
     holding1 |-> a.shares1_init > 0,
     last_switch_date |-> None,
     switches |-> 0,
     turnover_notional |-> 0,
     switch_hits |-> << >>,
     PositionFlag |-> << >>,
     \* locals of the iteration and the last appended results
     edge_bps |-> <<0, 1>>, do_switch |-> FALSE, target_is_2 |-> FALSE,
     cash_sold |-> a.cash_init * MoneyScale,
     equity_today |-> 0, equity_passive |-> 0, pos_flag |-> 0,
     \* history: the edge was nonzero and changed sign on every date after the first
     alternating |-> TRUE, first_sign |-> 0]

\* the flag stuck at +1
PosFlag_stuck(holding1) == 1

\* line 292: 1 if holding1 else -1
PosFlag(holding1) == IF holding1 THEN 1 ELSE -1

\* the hit proxy with >= for >
Hit_nonstrict(target_is_2, cur) ==
    IF target_is_2
    THEN ~RatLt(RatNorm(<<cur.close2, cur.close1>>), 1)
    ELSE ~RatLt(RatNorm(<<cur.close1, cur.close2>>), 1)

\* lines 284-287: (close2 / close1) > 1.0 after a switch to asset 2,
\* (close1 / close2) > 1.0 after a switch to asset 1
Hit(target_is_2, cur) ==
    IF target_is_2
    THEN RatGt(RatNorm(<<cur.close2, cur.close1>>), 1)
    ELSE RatGt(RatNorm(<<cur.close1, cur.close2>>), 1)

\* the mean of no observations: np.nan
NaNRate == <<0, 0>>

\* line 304: HitRate, the fraction <<hits, observations>>
HitRate(s) ==
    IF Len(s.switch_hits) > 0
    THEN <<Cardinality({k \in 1..Len(s.switch_hits) : s.switch_hits[k]}),
           Len(s.switch_hits)>>
    ELSE NaNRate

\* lines 215-292: one iteration of the loop
LoopBody(s, prev, cur, p, a, idx, date) ==
    LET e      == Edge(idx, prev, cur)
        ok     == cooldown_ok(s.last_switch_date, date, p.cooldown_days)
        d      == Decide(idx, ok, s.holding1, e, p.hysteresis_bps)
        sold   == IF d.do_switch THEN SellLeg(s, cur, p) ELSE s
        bought == IF d.do_switch
                  THEN [BuyLeg(sold, cur, p, d.target_is_2) EXCEPT
                            !.last_switch_date = <<date>>,
                            !.switches = @ + 1,
                            !.switch_hits =
                                IF idx > 0
                                THEN Append(@, Hit(d.target_is_2, cur))
                                ELSE @]
                  ELSE s
    IN  [bought EXCEPT
            !.edge_bps = e,
            !.do_switch = d.do_switch,
            !.target_is_2 = d.target_is_2,
            !.cash_sold = sold.cash,
            !.equity_today = MarkToClose(bought, cur),
            !.equity_passive = PassiveEquity(a, cur),
            !.pos_flag = PosFlag(bought.holding1),
            !.PositionFlag = Append(@, PosFlag(bought.holding1)),
            !.alternating =
                IF idx = 0 THEN TRUE
                ELSE /\ s.alternating
                     /\ RatSign(e) # 0
                     /\ (idx > 1 => RatSign(e) = 0 - RatSign(s.edge_bps)),
            !.first_sign = IF idx = 1 THEN RatSign(e) ELSE @]

\* ----------------------------------------------------------- behaviour
InitWith(runs) ==
    /\ pc = "loop"
    /\ i = -1
    /\ dt = 0
    /\ row = [r \in runs |-> [open1 |-> 1, close1 |-> 1, open2 |-> 1, close2 |-> 1]]
    /\ st = [r \in runs |-> InitState(args[r])]
    /\ left = << >>
    /\ right = << >>
    /\ combined = << >>
    /\ equity_curve = << >>
    /\ metrics = [MaxDrawdown |-> NaNRate]
    /\ open_fetch = NoFetch

\* one run, any arguments and parameters
Init ==
    /\ args \in [{1} -> Args]
    /\ params \in [{1} -> TradeParams]
    /\ InitWith({1})

\* the next row of the table, read alike by every run
Step ==
    /\ pc = "loop"
    /\ i + 1 < NDates
    /\ \E gap \in 1..MaxGap, cur \in Rows :
          LET date == IF i = -1 THEN 0 ELSE dt + gap IN
          /\ (i = -1 => gap = 1)
          /\ i' = i + 1
          /\ dt' = date
          /\ row' = [r \in Runs |-> cur]
          /\ st' = [r \in Runs |->
                      LoopBody(st[r], row[r], cur, params[r], args[r], i + 1, date)]
    /\ UNCHANGED <<pc, args, params, tables, curves, open_fetch>>

\* lines 294-306: the table is exhausted; results and stats are returned
Return ==
    /\ pc = "loop"
    /\ pc' = "done"
    /\ UNCHANGED <<i, dt, row, args, params, st, tables, curves, open_fetch>>

Next == Step \/ Return

Spec == Init /\ [][Next]_vars

\* ------------------------------------------------ two runs, one table
\* Run 1 without costs and run 2 with 50 bps of fee and of slippage, on
\* identical arguments, threshold and cooldown.
InitFee ==
    /\ \E a \in Args : args = [r \in {1, 2} |-> a]
    /\ \E h \in Hysteresis, c \in Cooldowns :
          params = [r \in {1, 2} |->
                      [hysteresis_bps |-> h, cooldown_days |-> c,
                       fee_bps |-> IF r = 1 THEN 0 ELSE 50,
                       slippage_bps |-> IF r = 1 THEN 0 ELSE 50]]
    /\ InitWith({1, 2})

SpecFee == InitFee /\ [][Next]_vars

\* Two runs on the same closes and the same initial holdings and cash, each
\* with opens of asset 1 of its own: run 1 with zero threshold, cooldown, fee and
\* slippage, run 2 with all four nonzero.
NoCosts ==
    [hysteresis_bps |-> 0, cooldown_days |-> 0, fee_bps |-> 0, slippage_bps |-> 0]

WithCosts ==
    [hysteresis_bps |-> HalfEdge, cooldown_days |-> MaxCooldown,
     fee_bps |-> 50, slippage_bps |-> 50]

InitPassive ==
    /\ \E a \in Args : args = [r \in {1, 2} |-> a]
    /\ params = [r \in {1, 2} |-> IF r = 1 THEN NoCosts ELSE WithCosts]
    /\ InitWith({1, 2})

\* the next row of the table: the closes and the open of asset 2 are shared,
\* each run reads an open of asset 1 of its own
StepOwnOpens ==
    /\ pc = "loop"
    /\ i + 1 < NDates
    /\ \E gap \in 1..MaxGap, c1 \in Prices, c2 \in Prices,
          o1 \in [Runs -> Prices], o2 \in Prices :
          LET date == IF i = -1 THEN 0 ELSE dt + gap
              cur  == [r \in Runs |-> [open1 |-> o1[r], close1 |-> c1,
                                       open2 |-> o2, close2 |-> c2]]
          IN
          /\ (i = -1 => gap = 1)
          /\ i' = i + 1
          /\ dt' = date
          /\ row' = cur
          /\ st' = [r \in Runs |->
                      LoopBody(st[r], row[r], cur[r], params[r], args[r], i + 1, date)]
    /\ UNCHANGED <<pc, args, params, tables, curves, open_fetch>>

NextPassive == StepOwnOpens \/ Return

SpecPassive == InitPassive /\ [][NextPassive]_vars

\* -------------------------------------------------- a one-share start
\* One run started with a single share of asset 1 and no cash, so that the
\* proceeds of a sale can be less than the price of one share of the target.
OneShare == [shares1_init |-> 1, shares2_init |-> 0, cash_init |-> 0]

InitOneShare ==
    /\ args = [r \in {1} |-> OneShare]
    /\ params \in [{1} -> TradeParams]
    /\ InitWith({1})

SpecOneShare == InitOneShare /\ [][Next]_vars

\* ---------------------------------- two runs with different money state
\* Two runs on one table with the same threshold and cooldown and the same
\* truth of shares1_init > 0: run 1 without costs on SharesInit shares, run 2
\* with 50 bps of fee and of slippage on one share or on cash alone.
CashOnly == [shares1_init |-> 0, shares2_init |-> 0, cash_init |-> CashInit]

InitMoney ==
    /\ \E a \in Args :
          args = [r \in {1, 2} |->
                    IF r = 1 THEN a
                    ELSE IF a.shares1_init > 0 THEN OneShare ELSE CashOnly]
    /\ \E h \in Hysteresis, c \in Cooldowns :
          params = [r \in {1, 2} |->
                      [hysteresis_bps |-> h, cooldown_days |-> c,
                       fee_bps |-> IF r = 1 THEN 0 ELSE 50,
                       slippage_bps |-> IF r = 1 THEN 0 ELSE 50]]
    /\ InitWith({1, 2})

SpecMoney == InitMoney /\ [][Next]_vars

\* ------------------------------------------------ a table not validated
\* backtest_switching reads whatever table it is given: closes may be zero or
\* negative.  The division of lines 227-228 is a division of Python floats: by
\* a zero close it raises ZeroDivisionError, by a negative close it computes.
RawCloses == {-1, 0} \cup Prices
RawRows == [open1 : {1}, close1 : RawCloses, open2 : {1}, close2 : RawCloses]

InitRaw ==
    /\ args \in [{1} -> Args]
    /\ params \in [{1} -> {NoCosts, WithCosts}]
    /\ InitWith({1})

\* the close that line 285 or 287 divides by when the iteration switches
HitDivisor(s, prev, cur, p, idx, date) ==
    LET d == Decide(idx, cooldown_ok(s.last_switch_date, date, p.cooldown_days),
                    s.holding1, Edge(idx, prev, cur), p.hysteresis_bps)
    IN  IF d.do_switch
        THEN IF d.target_is_2 THEN cur.close1 ELSE cur.close2
        ELSE 1

\* one iteration on a row of the raw table that divides by no zero close
StepRaw ==
    /\ pc = "loop"
    /\ i + 1 < NDates
    /\ i >= 0 => \A r \in Runs : row[r].close1 # 0 /\ row[r].close2 # 0
    /\ \E gap \in 1..MaxGap, cur \in RawRows :
          LET date == IF i = -1 THEN 0 ELSE dt + gap IN
          /\ (i = -1 => gap = 1)
          /\ \A r \in Runs :
                HitDivisor(st[r], row[r], cur, params[r], i + 1, date) # 0
          /\ i' = i + 1
          /\ dt' = date
          /\ row' = [r \in Runs |-> cur]
          /\ st' = [r \in Runs |->
                      LoopBody(st[r], row[r], cur, params[r], args[r], i + 1, date)]
    /\ UNCHANGED <<pc, args, params, tables, curves, open_fetch>>

\* lines 227-228 on a zero previous close, lines 285 and 287 on a zero close
\* of the date of a switch: the exception leaves the function, nothing is
\* returned
RaiseZeroDivision ==
    /\ pc = "loop"
    /\ i >= 0
    /\ i + 1 < NDates
    /\ \E r \in Runs :
          \/ row[r].close1 = 0
          \/ row[r].close2 = 0
          \/ /\ row[r].close1 # 0
             /\ row[r].close2 # 0
             /\ \E gap \in 1..MaxGap, cur \in RawRows :
                   HitDivisor(st[r], row[r], cur, params[r], i + 1, dt + gap) = 0
    /\ pc' = "ZeroDivisionError"
    /\ UNCHANGED <<i, dt, row, args, params, st, tables, curves, open_fetch>>

NextRaw == StepRaw \/ RaiseZeroDivision \/ Return

SpecRaw == InitRaw /\ [][NextRaw]_vars

\* ------------------------------------------------------- the aligner
\* A price table is a sequence of rows [date, open, close] in index order; a
\* missing value is NaN.  The joined table has rows [date, open1, close1,
\* open2, close2].
NaN == -999

Dates     == {1, 2}
LeftRows  == [date : Dates, open : {NaN, 1, 2}, close : {1}]
RightRows == [date : Dates, open : {1}, close : {NaN, 1}]
TablesOf(rows) == UNION { [1..n -> rows] : n \in 0..MaxRows }

\* index.is_monotonic_increasing
Monotonic(t) == \A k \in 1..(Len(t) - 1) : t[k].date <= t[k + 1].date

\* sort_index(): a table already in date order is returned as it is; any
\* other is sorted with the default kind "quicksort", which is not stable, so
\* that rows of one date come out in any order
SortIndex(t) ==
    IF Monotonic(t)
    THEN {t}
    ELSE { [k \in 1..Len(t) |-> t[q[k]]] :
           q \in { p \in Permutations(1..Len(t)) :
                   \A k \in 1..(Len(t) - 1) : t[p[k]].date <= t[p[k + 1]].date } }

JoinRow(a, b) ==
    [date |-> a.date, open1 |-> a.open, close1 |-> a.close,
     open2 |-> b.open, close2 |-> b.close]

\* the rows of r at the date of a, each joined to a
RECURSIVE JoinOne(_, _)
JoinOne(a, r) ==
    IF r = << >>
    THEN << >>
    ELSE (IF Head(r).date = a.date THEN <<JoinRow(a, Head(r))>> ELSE << >>)
            \o JoinOne(a, Tail(r))

\* line 69, left.join(right, how="inner"): every pair of rows of one date, in
\* the order of the left table
RECURSIVE Join(_, _)
Join(l, r) ==
    IF l = << >> THEN << >> ELSE JoinOne(Head(l), r) \o Join(Tail(l), r)

Complete(x) ==
    x.open1 # NaN /\ x.close1 # NaN /\ x.open2 # NaN /\ x.close2 # NaN

\* dropna() left out
DropNa_none(t) == t

\* line 69, dropna(): the rows with a missing value are dropped
RECURSIVE DropNa(_)
DropNa(t) ==
    IF t = << >>
    THEN << >>
    ELSE (IF Complete(Head(t)) THEN <<Head(t)>> ELSE << >>) \o DropNa(Tail(t))

\* lines 70-71, duplicated(keep="first"): of the rows of one date the first
\* is kept
RECURSIVE DropDuplicated(_, _)
DropDuplicated(t, seen) ==
    IF t = << >>
    THEN << >>
    ELSE IF Head(t).date \in seen
         THEN DropDuplicated(Tail(t), seen)
         ELSE <<Head(t)>> \o DropDuplicated(Tail(t), seen \cup {Head(t).date})

\* lines 64-72: the tables align_two can return
align_two(l, r) ==
    { DropDuplicated(DropNa(s), {}) : s \in SortIndex(Join(l, r)) }

\* main called on two downloads (pc = "fetch"), or align_two called on two
\* tables of any kind (pc = "align"); the backtest that follows is one run
\* without costs
InitAlign ==
    /\ pc \in {"fetch", "align"}
    /\ left \in TablesOf(LeftRows)
    /\ right \in TablesOf(RightRows)
    /\ combined = << >>
    /\ equity_curve = << >>
    /\ metrics = [MaxDrawdown |-> NaNRate]
    /\ open_fetch = NoFetch
    /\ i = -1
    /\ dt = 0
    /\ args = [r \in {1} |-> OneShare]
    /\ params = [r \in {1} |-> NoCosts]
    /\ row = [r \in {1} |-> [open1 |-> 1, close1 |-> 1, open2 |-> 1, close2 |-> 1]]
    /\ st = [r \in {1} |-> InitState(args[r])]

\* lines 51-61, for both tickers: an empty download raises ValueError, any
\* other is sorted by date
FetchData ==
    /\ pc = "fetch"
    /\ IF left = << >> \/ right = << >>
       THEN pc' = "ValueError" /\ UNCHANGED <<left, right>>
       ELSE /\ pc' = "align"
            /\ left' \in SortIndex(left)
            /\ right' \in SortIndex(right)
    /\ UNCHANGED <<i, dt, row, args, params, st, combined, curves, open_fetch>>

\* lines 64-72
AlignTwo ==
    /\ pc = "align"
    /\ pc' = "aligned"
    /\ combined' \in align_two(left, right)
    /\ UNCHANGED <<i, dt, row, args, params, st, left, right, curves, open_fetch>>

\* main, lines 369-377: backtest_switching is called on the aligned table
Begin ==
    /\ pc = "aligned"
    /\ pc' = "loop"
    /\ UNCHANGED <<i, dt, row, args, params, st, tables, curves, open_fetch>>

\* one iteration of the loop on the next row of the aligned table
StepAligned ==
    /\ pc = "loop"
    /\ i + 1 < Len(combined)
    /\ LET cur == combined[i + 2] IN
          /\ i' = i + 1
          /\ dt' = cur.date
          /\ row' = [r \in Runs |-> cur]
          /\ st' = [r \in Runs |->
                      LoopBody(st[r], row[r], cur, params[r], args[r],
                               i + 1, cur.date)]
    /\ UNCHANGED <<pc, args, params, tables, curves, open_fetch>>

\* lines 294-306, after the last row of the aligned table
ReturnAligned ==
    /\ pc = "loop"
    /\ i + 1 = Len(combined)
    /\ pc' = "done"
    /\ UNCHANGED <<i, dt, row, args, params, st, tables, curves, open_fetch>>

NextAlign == FetchData \/ AlignTwo \/ Begin \/ StepAligned \/ ReturnAligned

SpecAlign == InitAlign /\ [][NextAlign]_vars

\* ------------------------------------------------- compute_metrics
\* An equity curve is a sequence of values in whole price units, NaN for a
\* missing one.  A drawdown is an exact fraction with positive denominator,
\* NaNRate for 0 / 0 - 1 and MinusInf for x / 0 - 1 with x < 0.
MinusInf == <<-1, 0>>

CurveValues == {NaN, -1, 0, 1, 2}
Curves == UNION { [1..n -> CurveValues] : n \in 0..MaxCurve }

\* line 131, equity_curve.dropna()
RECURSIVE DropNaValues(_)
DropNaValues(c) ==
    IF c = << >>
    THEN << >>
    ELSE (IF Head(c) # NaN THEN <<Head(c)>> ELSE << >>) \o DropNaValues(Tail(c))

\* no running maximum: every value is compared with itself
CumMax_none(px) == px

\* line 149, px.cummax()
CumMax(px) ==
    [k \in 1..Len(px) |->
        CHOOSE v \in {px[j] : j \in 1..k} : \A j \in 1..k : px[j] <= v]

\* line 150, px / rolling_max - 1.0, at one date
Drawdown(x, rolling_max) ==
    IF rolling_max = 0
    THEN IF x = 0 THEN NaNRate ELSE MinusInf
    ELSE RatNorm(<<x - rolling_max, rolling_max>>)

\* a <= b for two drawdowns that are not NaN
DrawdownLe(a, b) ==
    \/ a = MinusInf
    \/ b # MinusInf /\ a[1] * b[2] <= b[1] * a[2]

\* line 151, dd.min(): the least of the values that are not NaN, NaN when
\* there is none
SeriesMin(dd) ==
    LET vals == {dd[k] : k \in 1..Len(dd)} \ {NaNRate}
    IN  IF vals = {}
        THEN NaNRate
        ELSE CHOOSE v \in vals : \A w \in vals : DrawdownLe(v, w)

\* lines 131 and 148-151: MaxDrawdown
max_dd(curve) ==
    LET px          == DropNaValues(curve)
        rolling_max == CumMax(px)
        dd          == [k \in 1..Len(px) |-> Drawdown(px[k], rolling_max[k])]
    IN  IF Len(dd) > 0 THEN SeriesMin(dd) ELSE NaNRate

InitMetrics ==
    /\ pc = "metrics"
    /\ equity_curve \in Curves
    /\ metrics = [MaxDrawdown |-> NaNRate]
    /\ open_fetch = NoFetch
    /\ left = << >>
    /\ right = << >>
    /\ combined = << >>
    /\ i = -1
    /\ dt = 0
    /\ args = [r \in {1} |-> OneShare]
    /\ params = [r \in {1} |-> NoCosts]
    /\ row = [r \in {1} |-> [open1 |-> 1, close1 |-> 1, open2 |-> 1, close2 |-> 1]]
    /\ st = [r \in {1} |-> InitState(args[r])]

\* lines 126-153, the MaxDrawdown of the metrics returned
ComputeMetrics ==
    /\ pc = "metrics"
    /\ pc' = "returned"
    /\ metrics' = [MaxDrawdown |-> max_dd(equity_curve)]
    /\ UNCHANGED <<i, dt, row, args, params, st, tables, equity_curve, open_fetch>>

NextMetrics == ComputeMetrics

SpecMetrics == InitMetrics /\ [][NextMetrics]_vars

\* ------------------------------------------------- signal2.py, main
\* lines 88-91: the overnight returns of A and B and the edge in bps
signal_edge_bps(cA, oA, cB, oB) ==
    LET rA == <<oA - cA, cA>>
        rB == <<oB - cB, cB>>
    IN  RatNorm(RatMul(RatSub(rB, rA), BpsPerUnit))

\* -edge_bps
RatNeg(q) == <<0 - q[1], q[2]>>

\* holding B, the edge compared without its negation
signal_action_unnegated(holding, edge_bps, delta) ==
    IF holding = "A"
    THEN IF RatGt(edge_bps, delta) THEN "Switch to B" ELSE "Hold A"
    ELSE IF RatGt(edge_bps, delta) THEN "Switch to A" ELSE "Hold B"

\* lines 96-108: the action of the message
signal_action(holding, edge_bps, delta) ==
    IF holding = "A"
    THEN IF RatGt(edge_bps, delta) THEN "Switch to B" ELSE "Hold A"
    ELSE IF RatGt(RatNeg(edge_bps), delta) THEN "Switch to A" ELSE "Hold B"

\* ------------------------------------------- signal2.py, today_open
\* What yf.download can return: a frame without rows or with the one-minute
\* bars of the day, with or without an Open column.  delay is not negative.
Frames ==
    { [rows |-> 0, has_open |-> h, open |-> NaN] : h \in BOOLEAN }
       \cup { [rows |-> 1, has_open |-> FALSE, open |-> NaN] }
       \cup { [rows |-> 1, has_open |-> TRUE, open |-> o] : o \in Prices }

\* any frame with rows taken for one with an open
Usable_nonempty(df) == df.rows > 0

\* line 59: not df.empty and "Open" in df.columns
Usable(df) == df.rows > 0 /\ df.has_open

InitOpen ==
    /\ pc = "today_open"
    /\ \E n \in -1..MaxRetries, d \in {0, MaxDelay} :
          open_fetch = [NoFetch EXCEPT !.retries = n, !.delay = d]
    /\ equity_curve = << >>
    /\ metrics = [MaxDrawdown |-> NaNRate]
    /\ left = << >>
    /\ right = << >>
    /\ combined = << >>
    /\ i = -1
    /\ dt = 0
    /\ args = [r \in {1} |-> OneShare]
    /\ params = [r \in {1} |-> NoCosts]
    /\ row = [r \in {1} |-> [open1 |-> 1, close1 |-> 1, open2 |-> 1, close2 |-> 1]]
    /\ st = [r \in {1} |-> InitState(args[r])]

\* lines 57-60: one more iteration of range(retries); the download, and the
\* return of the first bar's open when the frame is usable
Download ==
    /\ pc = "today_open"
    /\ open_fetch.attempt < open_fetch.retries
    /\ \E df \in Frames :
          /\ open_fetch' = [open_fetch EXCEPT
                               !.df = df,
                               !.downloads = @ + 1,
                               !.value = IF Usable(df) THEN df.open ELSE @]
          /\ pc' = IF Usable(df) THEN "open_returned" ELSE "sleep"
    /\ UNCHANGED <<i, dt, row, args, params, st, tables, curves>>

\* line 61: time.sleep(delay), then the next iteration
Sleep ==
    /\ pc = "sleep"
    /\ open_fetch' = [open_fetch EXCEPT !.slept = @ + open_fetch.delay,
                                        !.attempt = @ + 1]
    /\ pc' = "today_open"
    /\ UNCHANGED <<i, dt, row, args, params, st, tables, curves>>

\* line 62: range(retries) is exhausted
RaiseRuntimeError ==
    /\ pc = "today_open"
    /\ open_fetch.attempt >= open_fetch.retries
    /\ pc' = "RuntimeError"
    /\ UNCHANGED <<i, dt, row, args, params, st, tables, curves, open_fetch>>

NextOpen == Download \/ Sleep \/ RaiseRuntimeError

\* the interpreter runs the next statement: a download and a sleep return
SpecOpen == InitOpen /\ [][NextOpen]_vars /\ WF_vars(NextOpen)

\* ============================================================== claims
\* |q| > k, q = k and the comparisons of the claims, stated on the fraction
AbsExceeds(q, k) ==
    LET a == Abs(q[1]) IN
    \/ a \div q[2] > k
    \/ a \div q[2] = k /\ a % q[2] # 0
RatEq(q, k) == q[1] % q[2] = 0 /\ q[1] \div q[2] = k
Above(q, k) == (q[1] - 1) \div q[2] >= k
Below(q, k) == (0 - ((0 - (q[1] + 1)) \div q[2])) <= k
Switched(r) == st'[r].switches > st[r].switches
HeldShares(s) == IF s.holding1 THEN s.shares1 ELSE s.shares2

\* C1 -- Cooldown invariant: whenever a run switches on a date and an earlier
\* switch exists, the calendar-day difference between the two switch dates
\* is at least cooldown_days.
CooldownInvariant ==
    [][\A r \in Runs :
         (Switched(r) /\ st[r].last_switch_date # None)
            => /\ st'[r].last_switch_date = <<dt'>>
               /\ dt' - st[r].last_switch_date[1] >= params[r].cooldown_days]_vars

\* a second switch under a nonzero cooldown
CooldownWitness ==
    \E r \in Runs :
        /\ st[r].do_switch
        /\ st[r].switches >= 2
        /\ params[r].cooldown_days > 0

\* C2 -- Hysteresis invariant: every switch happens on a date whose edge
\* satisfies |edge_bps| > hysteresis_bps strictly; with the edge exactly at
\* the threshold (hysteresis_bps holding asset 1, -hysteresis_bps holding
\* asset 2) no switch occurs.
HysteresisInvariant ==
    [][\A r \in Runs :
         LET h == params[r].hysteresis_bps
             e == st'[r].edge_bps
         IN  /\ Switched(r) => AbsExceeds(e, h)
             /\ (i' = i + 1 /\ st[r].holding1 /\ RatEq(e, h)) => ~Switched(r)
             /\ (i' = i + 1 /\ ~st[r].holding1 /\ RatEq(e, 0 - h))
                    => ~Switched(r)]_vars

\* after one switch, holding asset 2 with the cooldown over, the edge is
\* exactly -hysteresis_bps (a positive threshold) and the run holds
HysteresisWitness ==
    \E r \in Runs :
        /\ st[r].switches = 1
        /\ ~st[r].do_switch
        /\ ~st[r].holding1
        /\ params[r].hysteresis_bps > 0
        /\ RatEq(st[r].edge_bps, 0 - params[r].hysteresis_bps)
        /\ dt - st[r].last_switch_date[1] >= params[r].cooldown_days

\* C3 -- Decision rule on every date after the first: holding asset 1 with
\* edge_bps > hysteresis_bps and the cooldown over, the run switches to asset
\* 2; holding asset 2 with edge_bps < -hysteresis_bps and the cooldown over,
\* it switches to asset 1; otherwise it holds, and shares, cash and
\* last_switch_date are unchanged.
DecisionRule ==
    [][\A r \in Runs :
         LET s  == st[r]
             s2 == st'[r]
             h  == params[r].hysteresis_bps
             e  == s2.edge_bps
             ok == \/ s.last_switch_date = None
                   \/ dt' - s.last_switch_date[1] >= params[r].cooldown_days
         IN  (i' = i + 1 /\ i' > 0) =>
               IF s.holding1 /\ Above(e, h) /\ ok
               THEN /\ s2.do_switch /\ s2.target_is_2 /\ ~s2.holding1
                    /\ s2.switches = s.switches + 1
                    /\ s2.last_switch_date = <<dt'>>
                    /\ s2.shares1 = 0
               ELSE IF (~s.holding1) /\ Below(e, 0 - h) /\ ok
               THEN /\ s2.do_switch /\ ~s2.target_is_2 /\ s2.holding1
                    /\ s2.switches = s.switches + 1
                    /\ s2.last_switch_date = <<dt'>>
                    /\ s2.shares2 = 0
               ELSE /\ ~s2.do_switch
                    /\ s2.switches = s.switches
                    /\ s2.shares1 = s.shares1 /\ s2.shares2 = s.shares2
                    /\ s2.cash = s.cash
                    /\ s2.holding1 = s.holding1
                    /\ s2.last_switch_date = s.last_switch_date]_vars

\* the edge is beyond the threshold against the held asset, and the run
\* holds because the cooldown since its last switch is not over
DecisionWitness ==
    \E r \in Runs :
        /\ i > 0
        /\ ~st[r].do_switch
        /\ st[r].last_switch_date # None
        /\ dt - st[r].last_switch_date[1] < params[r].cooldown_days
        /\ \/ st[r].holding1 /\ Above(st[r].edge_bps, params[r].hysteresis_bps)
           \/ ~st[r].holding1
                /\ Below(st[r].edge_bps, 0 - params[r].hysteresis_bps)

\* C4 -- Conservation: immediately after the buy leg of any switch, cash is
\* >= 0 (the purchase and its fee never exceed the available cash).
CashNonNegativeAfterBuy ==
    \A r \in Runs : st[r].do_switch => st[r].cash >= 0

\* C5 -- First-date rule: after the first date no switch has been executed
\* (the edge is zero), the position flag is +1 if shares1_init > 0 and -1
\* otherwise, the switch count is 0, and shares and cash have their initial
\* values.
FirstDateRule ==
    \A r \in Runs :
        i = 0 =>
          /\ st[r].edge_bps[1] = 0
          /\ ~st[r].do_switch
          /\ st[r].switches = 0
          /\ st[r].last_switch_date = None
          /\ st[r].pos_flag = IF args[r].shares1_init > 0 THEN 1 ELSE -1
          /\ st[r].shares1 = args[r].shares1_init
          /\ st[r].shares2 = args[r].shares2_init
          /\ st[r].cash = args[r].cash_init * MoneyScale

\* the first date has been processed under a negative threshold, which the
\* zero edge of that date exceeds
FirstDateWitness ==
    \E r \in Runs :
        /\ i = 0
        /\ params[r].hysteresis_bps < 0
        /\ st[r].pos_flag = 1

\* C6 -- Turnover monotonicity: turnover_notional never decreases, is
\* unchanged on a date without a switch, and on a date with a switch grows
\* by exactly the absolute sell-leg notional plus the absolute buy-leg
\* notional of that switch.
TurnoverMonotone ==
    [][\A r \in Runs :
         LET s  == st[r]
             s2 == st'[r]
             p  == params[r]
             sell_open == IF s.holding1 THEN row'[r].open1 ELSE row'[r].open2
             buy_open  == IF s.holding1 THEN row'[r].open2 ELSE row'[r].open1
             sell_notional ==
                 HeldShares(s) * sell_open * (BpsPerUnit - p.slippage_bps)
                    * (MoneyScale \div BpsPerUnit)
             bought == IF s.holding1 THEN s2.shares2 - s.shares2
                                     ELSE s2.shares1 - s.shares1
             buy_notional ==
                 bought * buy_open * (BpsPerUnit + p.slippage_bps)
                    * (MoneyScale \div BpsPerUnit)
         IN  /\ s2.turnover_notional >= s.turnover_notional
             /\ ~Switched(r) => s2.turnover_notional = s.turnover_notional
             /\ Switched(r) =>
                   s2.turnover_notional - s.turnover_notional
                      = Abs(sell_notional) + Abs(buy_notional)]_vars

\* a second switch has added both of its legs to a turnover already positive
TurnoverWitness ==
    \E r \in Runs :
        /\ st[r].do_switch
        /\ st[r].switches = 2
        /\ st[r].turnover_notional > 0
        /\ HeldShares(st[r]) > 0

\* C7 -- Passive baseline independence: on every date equity_passive equals
\* shares1_init * close_1 + shares2_init * close_2 + cash_init, and two runs
\* on the same closes and initial holdings and cash that differ in
\* hysteresis_bps, cooldown_days, fee_bps, slippage_bps and open prices have
\* the same equity_passive.
PassiveIndependence ==
    \A r \in Runs :
        i >= 0 =>
          /\ st[r].equity_passive =
                (args[r].shares1_init * row[r].close1
                   + args[r].shares2_init * row[r].close2
                   + args[r].cash_init) * MoneyScale
          /\ \A q \in Runs : st[q].equity_passive = st[r].equity_passive

\* the two runs read different opens and have switched a different number
\* of times
PassiveWitness ==
    /\ i >= 1
    /\ row[1].open1 # row[2].open1
    /\ st[1].switches # st[2].switches
    /\ st[1].equity_today # st[2].equity_today

InitialFlag(r) == IF args[r].shares1_init > 0 THEN 1 ELSE -1

\* C9 as stated -- with hysteresis_bps = 0 and cooldown_days = 0, on a table
\* whose edge is nonzero and alternates in sign on consecutive days, the run
\* has switched on every date after the first.
ZeroThresholdAnyStart ==
    \A r \in Runs :
        ( /\ params[r].hysteresis_bps = 0
          /\ params[r].cooldown_days = 0
          /\ i >= 2
          /\ st[r].alternating )
        => st[r].switches = i

\* C9 -- Zero threshold, amended: with hysteresis_bps = 0 and cooldown_days
\* = 0, on a table whose edge is nonzero, alternates in sign on consecutive
\* days and on the second date is against the initial holding (positive
\* when asset 1 is held, negative otherwise), the run switches on every date
\* after the first.
ZeroThresholdAgainstStart ==
    \A r \in Runs :
        ( /\ params[r].hysteresis_bps = 0
          /\ params[r].cooldown_days = 0
          /\ i >= 1
          /\ st[r].alternating
          /\ st[r].first_sign = InitialFlag(r) )
        => /\ st[r].do_switch
           /\ st[r].switches = i

\* three dates of such a table have been processed, with two switches
ZeroThresholdWitness ==
    \E r \in Runs :
        /\ params[r].hysteresis_bps = 0
        /\ params[r].cooldown_days = 0
        /\ i >= 2
        /\ st[r].alternating
        /\ st[r].first_sign = InitialFlag(r)
        /\ st[r].switches = i

\* C10 as stated -- at every switch the run with 50 bps of fee and slippage
\* (run 2) has strictly lower post-switch cash than the run without (run 1).
FeeRunCashLower ==
    st[1].do_switch => st[2].cash < st[1].cash

\* C10 -- Fee/slippage scenario, amended: at the first switch, when shares
\* are sold, the run with 50 bps of fee and slippage switches too and has
\* strictly lower cash after the sell leg than the run without; its cash
\* after the buy leg need not be lower.
FeeRunSoldCashLower ==
    ( /\ st[1].do_switch
      /\ st[1].switches = 1
      /\ args[1].shares1_init + args[1].shares2_init > 0 )
    => /\ st[2].do_switch
       /\ st[2].switches = 1
       /\ st[2].cash_sold < st[1].cash_sold

\* a first switch after which the run with costs holds more cash
FeeRunWitness ==
    /\ st[1].do_switch
    /\ st[1].switches = 1
    /\ st[2].cash > st[1].cash
    /\ st[2].cash_sold < st[1].cash_sold

\* C11 -- Switch execution result with fee_bps = 0 and slippage_bps = 0: a
\* switch from asset 1 to asset 2 (symmetrically 2 to 1) sets the shares of
\* the sold asset to 0, adds floor((cash_before + shares_before * open_sold)
\* / open_target) shares of the target, leaves the remainder of that
\* division as cash, and equity_active of the date is the target's shares at
\* its close plus that cash; with SharesInit shares of asset 1, zero cash
\* and the open of asset 1 on the second date equal to its close on the
\* first, a switch on the second date gives
\* shares_asset2 = floor(SharesInit * close_1(first) / open_2(second)).
SwitchResult ==
    [][\A r \in Runs :
         LET s   == st[r]
             s2  == st'[r]
             cur == row'[r]
             proceeds ==
                 s.cash + HeldShares(s) * MoneyScale
                            * (IF s.holding1 THEN cur.open1 ELSE cur.open2)
             buy_px ==
                 MoneyScale * (IF s.holding1 THEN cur.open2 ELSE cur.open1)
         IN  ( /\ params[r].fee_bps = 0
               /\ params[r].slippage_bps = 0
               /\ Switched(r) )
             => /\ s.holding1 =>
                     /\ s2.shares1 = 0
                     /\ s2.shares2 = s.shares2 + (proceeds \div buy_px)
                     /\ s2.equity_today
                           = s2.shares2 * cur.close2 * MoneyScale + s2.cash
                /\ ~s.holding1 =>
                     /\ s2.shares2 = 0
                     /\ s2.shares1 = s.shares1 + (proceeds \div buy_px)
                     /\ s2.equity_today
                           = s2.shares1 * cur.close1 * MoneyScale + s2.cash
                /\ s2.cash = proceeds % buy_px
                /\ ( /\ i' = 1
                     /\ args[r].shares1_init = SharesInit
                     /\ args[r].shares2_init = 0
                     /\ args[r].cash_init = 0
                     /\ cur.open1 = row[r].close1 )
                   => s2.shares2
                        = (SharesInit * row[r].close1) \div cur.open2]_vars

\* a switch without fee and slippage has bought shares at a close different
\* from the open and left a residual of cash smaller than one share
SwitchResultWitness ==
    \E r \in Runs :
        /\ params[r].fee_bps = 0
        /\ params[r].slippage_bps = 0
        /\ st[r].do_switch
        /\ st[r].cash > 0
        /\ HeldShares(st[r]) > 0
        /\ IF st[r].holding1 THEN row[r].open1 # row[r].close1
                             ELSE row[r].open2 # row[r].close2

\* C12 -- Failure on bad previous close: no date after the first is processed
\* when the previous date's close of either asset is zero or negative; the
\* run aborts instead of computing an edge from that close and continuing.
NoEdgeFromBadClose ==
    [][\A r \in Runs :
         (i >= 0 /\ i' = i + 1)
            => (row[r].close1 > 0 /\ row[r].close2 > 0)]_vars

\* C13 as stated -- Share exclusivity: in a run started with exactly one
\* asset held, after every processed date exactly one of shares_asset1 > 0
\* and shares_asset2 > 0 holds.
ShareExclusivity ==
    \A r \in Runs :
        ( /\ i >= 0
          /\ (args[r].shares1_init > 0) # (args[r].shares2_init > 0) )
        => (st[r].shares1 > 0) # (st[r].shares2 > 0)

\* C13 -- Share exclusivity, amended: in a run started with exactly one
\* asset held, after every processed date the asset not held has 0 shares,
\* so that shares_asset1 > 0 and shares_asset2 > 0 never hold together;
\* exactly one of them holds after a switch whose cash after the sell leg
\* was at least the buy price of one share of the target, and neither holds
\* after a switch whose cash after the sell leg was less.
ShareExclusivityAtMost ==
    \A r \in Runs :
        LET s      == st[r]
            buy_px == (IF s.holding1 THEN row[r].open1 ELSE row[r].open2)
                         * (BpsPerUnit + params[r].slippage_bps)
                         * (MoneyScale \div BpsPerUnit)
        IN  ( /\ i >= 0
              /\ (args[r].shares1_init > 0) # (args[r].shares2_init > 0) )
            => /\ ~(s.shares1 > 0 /\ s.shares2 > 0)
               /\ s.holding1 => s.shares2 = 0
               /\ ~s.holding1 => s.shares1 = 0
               /\ (s.do_switch /\ s.cash_sold >= buy_px)
                     => (s.shares1 > 0) # (s.shares2 > 0)
               /\ (s.do_switch /\ s.cash_sold < buy_px)
                     => (s.shares1 <= 0 /\ s.shares2 <= 0)

\* a switch has sold the one share of asset 1 for less than the price of a
\* share of asset 2: the run holds no share of either asset
ShareExclusivityWitness ==
    \E r \in Runs :
        /\ st[r].do_switch
        /\ st[r].switches = 1
        /\ ~st[r].holding1
        /\ st[r].shares1 = 0
        /\ st[r].shares2 = 0
        /\ st[r].cash > 0

\* the table align_two returned is in combined
Aligned == pc \in {"aligned", "loop", "done"}
\* row x of the aligned table is row a of the left table joined to row b of
\* the right one
JoinedFrom(x, a, b) ==
    /\ x.date = a.date /\ x.date = b.date
    /\ x.open1 = a.open /\ x.close1 = a.close
    /\ x.open2 = b.open /\ x.close2 = b.close
\* the first row of table t at date d
FirstAt(t, d) ==
    t[CHOOSE k \in 1..Len(t) :
        t[k].date = d /\ \A j \in 1..(k - 1) : t[j].date # d]
\* the claims of C14 about dates and missing values
AlignedDates ==
    /\ \A k \in 1..(Len(combined) - 1) :
          combined[k].date < combined[k + 1].date
    /\ \A k \in 1..Len(combined) :
          /\ \E a \in 1..Len(left) : left[a].date = combined[k].date
          /\ \E b \in 1..Len(right) : right[b].date = combined[k].date
          /\ combined[k].open1 # NaN /\ combined[k].close1 # NaN
          /\ combined[k].open2 # NaN /\ combined[k].close2 # NaN

\* C14 as stated -- Aligner output shape: for any two input tables the dates
\* of the table align_two returns are strictly increasing, every date is in
\* both inputs, no open or close is missing, and the row of a date is the
\* first occurrence of that date in each input.
AlignedKeepsFirst ==
    Aligned =>
      /\ AlignedDates
      /\ \A k \in 1..Len(combined) :
            JoinedFrom(combined[k], FirstAt(left, combined[k].date),
                                    FirstAt(right, combined[k].date))

\* C14 -- Aligner output shape, amended: for any two input tables the dates
\* of the table align_two returns are strictly increasing, every date is in
\* both inputs, no open or close is missing, and the row of a date is a
\* joined row of that date without missing values: for inputs in date order
\* the first such row, in the order of the left table and then of the right.
AlignedKeepsFirstComplete ==
    Aligned =>
      /\ AlignedDates
      /\ \A k \in 1..Len(combined) :
            \E a \in 1..Len(left), b \in 1..Len(right) :
               /\ JoinedFrom(combined[k], left[a], right[b])
               /\ (Monotonic(left) /\ Monotonic(right)) =>
                     \A c \in 1..Len(left), d \in 1..Len(right) :
                        ( /\ left[c].date = combined[k].date
                          /\ right[d].date = combined[k].date
                          /\ left[c].open # NaN /\ left[c].close # NaN
                          /\ right[d].open # NaN /\ right[d].close # NaN )
                        => (c > a \/ (c = a /\ d >= b))

\* a date twice in the left table, its first row with a missing open and its
\* second complete, and the aligned table has a row of that date
AlignedWitness ==
    /\ Aligned
    /\ Len(left) = 2
    /\ left[1].date = left[2].date
    /\ left[1].open = NaN
    /\ left[2].open # NaN
    /\ Len(combined) = 1
    /\ combined[1].open1 = left[2].open

\* C15 -- Aligner empty-input failure: when either of the two input tables
\* is empty, align_two fails: it returns no aligned table (not an empty one
\* either) and no simulation begins.
EmptyInputFails ==
    (left = << >> \/ right = << >>) => ~Aligned

\* C16 -- Point-in-time mode agrees with the engine: on a date after the
\* first of a run that has not switched yet, the engine switches to asset 2
\* exactly when signal2 says "Switch to B" for the same previous closes,
\* opens, held asset and threshold, switches to asset 1 exactly when it says
\* "Switch to A", and holds exactly when it says to hold.
SignalAgrees ==
    [][\A r \in Runs :
         LET action ==
               signal_action(IF st[r].holding1 THEN "A" ELSE "B",
                             signal_edge_bps(row[r].close1, row'[r].open1,
                                             row[r].close2, row'[r].open2),
                             params[r].hysteresis_bps)
         IN  (i' = i + 1 /\ i' > 0 /\ st[r].last_switch_date = None)
             => /\ action = "Switch to B"
                     <=> (st'[r].do_switch /\ st'[r].target_is_2)
                /\ action = "Switch to A"
                     <=> (st'[r].do_switch /\ ~st'[r].target_is_2)
                /\ action = "Hold A" <=> (~st'[r].do_switch /\ st[r].holding1)
                /\ action = "Hold B" <=> (~st'[r].do_switch /\ ~st[r].holding1)]_vars

\* the first switch of a run is from asset 2 to asset 1, across a positive
\* threshold
SignalWitness ==
    \E r \in Runs :
        /\ st[r].do_switch
        /\ ~st[r].target_is_2
        /\ st[r].switches = 1
        /\ params[r].hysteresis_bps > 0
        /\ RatSign(st[r].edge_bps) = -1

\* C17 -- Hit observations: every executed switch appends exactly one hit
\* observation and no other date appends any, the observation is true iff on
\* the switch date the close of the asset switched into is higher than the
\* close of the asset switched out of, and the HitRate returned is NaN
\* exactly when the run has zero switches.
HitObservations ==
    [][\A r \in Runs :
         LET s   == st[r]
             s2  == st'[r]
             cur == row'[r]
             n   == Len(s.switch_hits)
         IN  /\ Len(s2.switch_hits) = s2.switches
             /\ ~Switched(r) => s2.switch_hits = s.switch_hits
             /\ Switched(r) =>
                   /\ Len(s2.switch_hits) = n + 1
                   /\ \A k \in 1..n : s2.switch_hits[k] = s.switch_hits[k]
                   /\ s2.switch_hits[n + 1]
                        = IF s.holding1 THEN cur.close2 > cur.close1
                                        ELSE cur.close1 > cur.close2
             /\ pc' = "done" =>
                   (HitRate(s2) = NaNRate <=> s2.switches = 0)]_vars

\* a run has returned after two switches, one a hit and one not
HitWitness ==
    \E r \in Runs :
        /\ pc = "done"
        /\ st[r].switches = 2
        /\ HitRate(st[r]) = <<1, 2>>

\* the dates of the curve with a value, and the greatest value up to date k
Valued == {k \in 1..Len(equity_curve) : equity_curve[k] # NaN}
RunningMax(k) ==
    CHOOSE v \in {equity_curve[j] : j \in {n \in Valued : n <= k}} :
        \A j \in {n \in Valued : n <= k} : equity_curve[j] <= v
\* q = value(k) / running_max(k) - 1, and q <= value(k) / running_max(k) - 1
DrawdownIs(q, k) ==
    /\ RunningMax(k) # 0
    /\ q[2] # 0
    /\ q[1] * RunningMax(k) = (equity_curve[k] - RunningMax(k)) * q[2]
DrawdownAtMost(q, k) ==
    /\ RunningMax(k) # 0
    /\ q[2] > 0
    /\ IF RunningMax(k) > 0
       THEN q[1] * RunningMax(k) <= (equity_curve[k] - RunningMax(k)) * q[2]
       ELSE q[1] * RunningMax(k) >= (equity_curve[k] - RunningMax(k)) * q[2]
\* the MaxDrawdown returned is the least drawdown of the curve, within [-1, 0]
LeastDrawdownInRange ==
    LET q == metrics.MaxDrawdown IN
    /\ \E k \in Valued : DrawdownIs(q, k)
    /\ \A k \in Valued : DrawdownAtMost(q, k)
    /\ q[2] > 0
    /\ 0 - q[2] <= q[1]
    /\ q[1] <= 0

\* C18 as stated -- Max drawdown range: for any non-empty equity curve (one
\* that has a value), MaxDrawdown is the minimum over t of
\* value(t) / running_max(t) - 1 and lies in [-1, 0].
MaxDrawdownAnyCurve ==
    (pc = "returned" /\ Valued # {}) => LeastDrawdownInRange

\* C18 -- Max drawdown range, amended: for any equity curve that has a
\* value and whose values are all positive, MaxDrawdown is the minimum over
\* t of value(t) / running_max(t) - 1 and lies in [-1, 0].
MaxDrawdownPositiveCurve ==
    ( /\ pc = "returned"
      /\ Valued # {}
      /\ \A k \in Valued : equity_curve[k] > 0 )
    => LeastDrawdownInRange

\* a curve with a missing value that falls from 2 to 1: MaxDrawdown is -1/2
MaxDrawdownWitness ==
    /\ pc = "returned"
    /\ Len(equity_curve) = 3
    /\ Valued # {}
    /\ \A k \in Valued : equity_curve[k] > 0
    /\ \E k \in 1..Len(equity_curve) : equity_curve[k] = NaN
    /\ metrics.MaxDrawdown = <<-1, 2>>

\* C19 -- Switch decisions are independent of money state: two runs on the
\* same table with the same hysteresis_bps and cooldown_days and the same
\* truth of shares1_init > 0 switch on the same dates and have the same
\* PositionFlag on every date, whatever their fee_bps, slippage_bps, cash_init
\* and share counts are.
MoneyIndependence ==
    \A r \in Runs, q \in Runs :
        /\ st[r].do_switch = st[q].do_switch
        /\ st[r].target_is_2 = st[q].target_is_2
        /\ st[r].last_switch_date = st[q].last_switch_date
        /\ st[r].switches = st[q].switches
        /\ st[r].pos_flag = st[q].pos_flag

\* both runs have switched on a date on which the floor gave run 2 no share:
\* run 1 holds shares of the target and run 2 holds none of either asset
MoneyWitness ==
    /\ st[1].do_switch
    /\ st[2].do_switch
    /\ HeldShares(st[1]) > 0
    /\ st[2].shares1 = 0
    /\ st[2].shares2 = 0
    /\ st[1].cash # st[2].cash
    /\ args[1].shares1_init # args[2].shares1_init

\* the number of sign changes in a sequence of flags
SignChanges(f) == Cardinality({k \in 2..Len(f) : f[k] # f[k - 1]})

\* C20 -- Position flag tracks switches: every processed date appends
\* exactly one flag, after those of the earlier dates; the flag of a date
\* after the first differs from the flag of the date before it if and only if
\* a switch was executed on that date; and the Switches returned is the number
\* of sign changes in the PositionFlag sequence.
FlagTracksSwitches ==
    [][\A r \in Runs :
         LET f  == st[r].PositionFlag
             f2 == st'[r].PositionFlag
         IN  /\ i' = i + 1 =>
                   /\ Len(f) = i + 1
                   /\ Len(f2) = Len(f) + 1
                   /\ \A k \in 1..Len(f) : f2[k] = f[k]
                   /\ f2[Len(f2)] = st'[r].pos_flag
                   /\ i >= 0 => dt' > dt
                   /\ i >= 0 => (f2[Len(f2)] # f[Len(f)] <=> Switched(r))
             /\ i' = i => f2 = f
             /\ pc' = "done" => st'[r].switches = SignChanges(f2)]_vars

\* a run has returned after three dates with a switch on the second and on
\* the third
FlagWitness ==
    \E r \in Runs :
        /\ pc = "done"
        /\ st[r].switches = 2
        /\ st[r].PositionFlag = <<-1, 1, -1>>

\* today_open has returned or raised
OpenEnded == pc \in {"open_returned", "RuntimeError"}
\* the attempts today_open can make: retries of them, none for retries <= 0
MaxAttempts == IF open_fetch.retries > 0 THEN open_fetch.retries ELSE 0
\* the frame of an attempt that succeeds: one with rows, and with an Open
\* column when needs_open
Yields(df, needs_open) == df.rows > 0 /\ (needs_open => df.has_open)
\* one step of the retry contract of C21, for either reading of a
\* successful attempt
RetryStep(needs_open) ==
    /\ open_fetch'.downloads > open_fetch.downloads =>
          /\ open_fetch'.downloads = open_fetch.downloads + 1
          /\ open_fetch'.slept = open_fetch.slept
          /\ IF Yields(open_fetch'.df, needs_open)
             THEN /\ pc' = "open_returned"
                  /\ open_fetch'.value = open_fetch'.df.open
             ELSE pc' = "sleep"
    /\ pc = "sleep" =>
          /\ open_fetch'.slept = open_fetch.slept + open_fetch.delay
          /\ open_fetch'.downloads = open_fetch.downloads
    /\ OpenEnded => open_fetch' = open_fetch
\* the counts of the retry contract of C21
RetryCounts ==
    /\ open_fetch.downloads <= MaxAttempts
    /\ pc = "open_returned" =>
          /\ open_fetch.slept = open_fetch.delay * (open_fetch.downloads - 1)
          /\ open_fetch.value # NaN
    /\ pc = "RuntimeError" =>
          /\ open_fetch.downloads = MaxAttempts
          /\ open_fetch.slept = open_fetch.delay * MaxAttempts
          /\ open_fetch.retries <= 0 => open_fetch.downloads = 0

\* C21 as stated -- Bounded retry in today_open: at most retries downloads;
\* the first bar's open is returned at the first attempt that yields
\* non-empty data, without any further attempt or sleep; delay seconds are
\* slept after each failed attempt; and the call ends, with RuntimeError when
\* all attempts fail (at once and without a download when retries is 0).
BoundedRetryNonEmpty ==
    [][RetryStep(FALSE)]_vars /\ []RetryCounts /\ <>OpenEnded

\* C21 -- Bounded retry in today_open, amended: at most retries downloads;
\* the first bar's open is returned at the first attempt that yields
\* non-empty data with an Open column, without any further attempt or sleep;
\* an attempt whose data is empty or has no Open column is a failed one;
\* delay seconds are slept after each failed attempt; and the call ends,
\* with RuntimeError when all attempts fail (at once and without a download
\* when retries is 0).
BoundedRetryWithOpen ==
    [][RetryStep(TRUE)]_vars /\ []RetryCounts /\ <>OpenEnded

\* every attempt has failed, the last on a frame with rows and no Open
\* column, and RuntimeError is raised after the sleep of the last attempt
BoundedRetryWitness ==
    /\ pc = "RuntimeError"
    /\ open_fetch.retries = MaxRetries
    /\ open_fetch.downloads = MaxRetries
    /\ open_fetch.df.rows > 0
    /\ open_fetch.slept = MaxDelay * MaxRetries

====
